---- MODULE Spec2Model ----
(***************************************************************************)
(* POSIX-style `*at` wrappers of src/fs/at.rs.                             *)
(*                                                                         *)
(* A caller holds directory handles and invokes one wrapper at a time.     *)
(* Every wrapper converts its path arguments to C strings, crosses into    *)
(* libc, and translates the raw return value.  The operating system is     *)
(* the environment: it keeps one directory's symlink table (links) and     *)
(* answers every native call with a return value and an errno.             *)
(***************************************************************************)
EXTENDS Integers, Sequences, FiniteSets, TLC

VARIABLES
    platform,   \* the build's target_os (the cfg attributes select code by it)
    links,      \* OS: symlink name -> stored target bytes
    symlinked,  \* history: name -> the target the caller gave to symlinkat
    handles,    \* the File values the caller holds: [fd, manual]
    op,         \* the operation in progress or last finished
    calls,      \* the native calls made by that operation, in order
    result,     \* what the invocation returned
    pc,         \* "idle", or "loop" inside the wasi _readlinkat loop
    buffer      \* the wasi _readlinkat Vec<u8>: [len, cap, data]

vars == <<platform, links, symlinked, handles, op, calls, result, pc, buffer>>

-----------------------------------------------------------------------------
(* Bounds of the model *)

\* libc::PATH_MAX of the fixed-buffer platforms (4096 on linux, 1024 on
\* macos), scaled down; every length that matters is stated relative to it.
PATH_MAX == 4

\* How far beyond the initial capacity the wasi symlink targets reach.
ExtraLen == 1

\* The largest descriptor the OS hands out.
MaxFd == 3

(* Program constants *)

InitialCapacity == 256

AT_FDCWD == -100

AT_SYMLINK_NOFOLLOW == 256

-----------------------------------------------------------------------------
(* Inputs *)

Platforms == {"linux", "macos", "wasi", "emscripten"}

\* A byte string of length n without NUL.
Pat(n) == [i \in 1..n |-> 1 + (i % 2)]

\* Path arguments: a plain name and one with an embedded NUL byte.
Paths == {<<1>>, <<1, 0, 2>>}

\* Symlink targets the caller may pass on the given platform.
Targets(p) ==
    IF p = "wasi"
    THEN {Pat(n) : n \in {InitialCapacity - 1, InitialCapacity,
                           InitialCapacity + ExtraLen}}
         \cup {<<2, 0, 1>>}
    ELSE {Pat(n) : n \in {1, PATH_MAX - 1, PATH_MAX}}
         \cup {<<2, 0, 1>>}

OFlagsSet == {0}

Modes == {420}

AtFlagsSet == {0, AT_SYMLINK_NOFOLLOW}

AccessSet == {4}

\* How the OS answers a native call: it lets it succeed when its own
\* preconditions hold, or fails it with the given errno.
Answers == {0, 13}

-----------------------------------------------------------------------------
(* io::Result values *)

\* The value of io::Result<()>.
Unit == [unit |-> TRUE]

\* Ok(v); v is [unit], [ret], [fd], [bytes] or [stat].
Ok(v) == [kind |-> "ok", val |-> v, errno |-> 0]

\* Err(io::Error::last_os_error())
OsErr(e) == [kind |-> "os_err", val |-> Unit, errno |-> e]

\* The error of a failed path conversion.
ConvErr == [kind |-> "conv_err", val |-> Unit, errno |-> 0]

\* A panic (unwrap of a failed try_into, a slice index out of range).
Panic == [kind |-> "panic", val |-> Unit, errno |-> 0]

\* Nothing returned (yet).
None == [kind |-> "none", val |-> Unit, errno |-> 0]

\* PathArg::as_cstr: a NUL-terminated view, or an error on an embedded NUL.
as_cstr(path) ==
    IF \E i \in 1..Len(path) : path[i] = 0
    THEN [ok |-> FALSE, val |-> <<>>]
    ELSE [ok |-> TRUE, val |-> Append(path, 0)]

\* zero_ok: a non-zero return is a failure carrying errno.
zero_ok(o) == IF o.ret = 0 THEN Ok(Unit) ELSE OsErr(o.errno)

\* negone_err: a negative return is a failure carrying errno.
negone_err(o) == IF o.ret < 0 THEN OsErr(o.errno) ELSE Ok([ret |-> o.ret])

-----------------------------------------------------------------------------
(* The native side *)

\* What libc reads through path.as_ptr(): the bytes before the first NUL.
CStrBytes(c) ==
    LET n == CHOOSE i \in 1..Len(c) : c[i] = 0 /\ \A j \in 1..(i - 1) : c[j] # 0
    IN  SubSeq(c, 1, n - 1)

\* The record of one native call.
Call(fn, args, o) == [fn |-> fn, args |-> args, ret |-> o.ret, errno |-> o.errno]

\* A native call that does not touch the symlink table.
Plain(w) == IF w = 0 THEN [ret |-> 0, errno |-> 0] ELSE [ret |-> -1, errno |-> w]

\* The descriptors currently open.
OpenFds(hs) == {h.fd : h \in {x \in hs : ~x.manual}}

\* openat(2): the lowest free descriptor, or -1.
libc_openat(w, hs) ==
    LET free == (3..MaxFd) \ OpenFds(hs)
    IN  IF w # 0 THEN [ret |-> -1, errno |-> w]
        ELSE IF free = {} THEN [ret |-> -1, errno |-> 24]
        ELSE [ret |-> CHOOSE f \in free : \A g \in free : f <= g, errno |-> 0]

\* symlinkat(2): stores the target text verbatim under the new name.
libc_symlinkat(w, lk, plat, old_path, new_path) ==
    LET t == CStrBytes(old_path)
        n == CStrBytes(new_path)
    IN  IF w # 0 THEN [ret |-> -1, errno |-> w, links |-> lk]
        ELSE IF n \in DOMAIN lk THEN [ret |-> -1, errno |-> 17, links |-> lk]
        ELSE IF Len(t) = 0 THEN [ret |-> -1, errno |-> 2, links |-> lk]
        ELSE IF plat # "wasi" /\ Len(t) >= PATH_MAX
             THEN [ret |-> -1, errno |-> 36, links |-> lk]
        ELSE [ret |-> 0, errno |-> 0,
              links |-> [x \in DOMAIN lk \cup {n} |-> IF x = n THEN t ELSE lk[x]]]

\* unlinkat(2): removes the name.
libc_unlinkat(w, lk, path) ==
    LET n == CStrBytes(path)
    IN  IF w # 0 THEN [ret |-> -1, errno |-> w, links |-> lk]
        ELSE IF n \notin DOMAIN lk THEN [ret |-> -1, errno |-> 2, links |-> lk]
        ELSE [ret |-> 0, errno |-> 0, links |-> [x \in DOMAIN lk \ {n} |-> lk[x]]]

\* readlinkat(2): writes at most bufsiz bytes of the target, unterminated,
\* and returns how many it wrote.
libc_readlinkat(w, lk, path, buf, bufsiz) ==
    LET n == CStrBytes(path)
    IN  IF w # 0 THEN [ret |-> -1, errno |-> w, buf |-> buf]
        ELSE IF n \notin DOMAIN lk THEN [ret |-> -1, errno |-> 2, buf |-> buf]
        ELSE LET t == lk[n]
                 k == IF Len(t) < bufsiz THEN Len(t) ELSE bufsiz
             IN  [ret |-> k, errno |-> 0,
                  buf |-> [i \in 1..Len(buf) |-> IF i <= k THEN t[i] ELSE buf[i]]]

\* fstatat(2): fills the record on success and leaves it alone on failure.
libc_fstatat(w, stat) ==
    IF w # 0 THEN [ret |-> -1, errno |-> w, stat |-> stat]
    ELSE [ret |-> 0, errno |-> 0, stat |-> [init |-> TRUE, st_size |-> 7]]

-----------------------------------------------------------------------------
\* No Vec is alive outside the wasi _readlinkat.
NoBuffer == [len |-> 0, cap |-> 0, data |-> <<>>]

\* No symlink exists yet.
EmptyMap == [x \in {} |-> <<>>]

(* The state after start-up: one preopened directory, nothing called yet. *)

Init ==
    /\ platform \in Platforms
    /\ links = EmptyMap
    /\ symlinked = EmptyMap
    /\ handles = {[fd |-> 3, manual |-> FALSE]}
    /\ op = [name |-> "none", args |-> Unit]
    /\ calls = <<>>
    /\ result = None
    /\ pc = "idle"
    /\ buffer = NoBuffer

\* The directory handles the caller can borrow for a call.
DirFds == {h.fd : h \in handles}

\* A wrapper returns: r is an inner function's [res, calls, links].
Return(name, args, r) ==
    /\ op' = [name |-> name, args |-> args]
    /\ result' = r.res
    /\ calls' = r.calls
    /\ links' = r.links
    /\ pc' = "idle"

\* The `?` after as_cstr: the conversion error is returned, nothing is called.
Failed == [res |-> ConvErr, calls |-> <<>>, links |-> links]

-----------------------------------------------------------------------------
(* cwd and the caller's handles *)

\* cwd returning a plain, owning File.
cwd_owning ==
    /\ pc = "idle"
    /\ platform # "wasi"
    /\ handles' = handles \cup {[fd |-> AT_FDCWD, manual |-> FALSE]}
    /\ Return("cwd", Unit, [res |-> Ok([fd |-> AT_FDCWD]), calls |-> <<>>, links |-> links])
    /\ UNCHANGED <<platform, symlinked, buffer>>

\* cwd(): a ManuallyDrop<File> around AT_FDCWD; nothing is called.
cwd ==
    /\ pc = "idle"
    /\ platform # "wasi"
    /\ handles' = handles \cup {[fd |-> AT_FDCWD, manual |-> TRUE]}
    /\ Return("cwd", Unit, [res |-> Ok([fd |-> AT_FDCWD]), calls |-> <<>>, links |-> links])
    /\ UNCHANGED <<platform, symlinked, buffer>>

\* A handle goes out of scope: File closes its descriptor, ManuallyDrop does not.
drop(h) ==
    /\ pc = "idle"
    /\ h \in handles
    /\ handles' = handles \ {h}
    /\ Return("drop", [fd |-> h.fd],
              [res   |-> None,
               calls |-> IF h.manual THEN <<>>
                         ELSE <<Call("close", [fd |-> h.fd], Plain(0))>>,
               links |-> links])
    /\ UNCHANGED <<platform, symlinked, buffer>>

-----------------------------------------------------------------------------
(* openat *)

\* _openat without the `?`: the descriptor is wrapped whatever was returned.
_openat_unchecked(dirfd, path, oflags, mode, w) ==
    LET o == libc_openat(w, handles)
    IN  [res   |-> Ok([fd |-> o.ret]),
         calls |-> <<Call("openat", [dirfd |-> dirfd, path |-> path,
                                     oflags |-> oflags, mode |-> mode], o)>>,
         links |-> links]

_openat(dirfd, path, oflags, mode, w) ==
    LET o  == libc_openat(w, handles)
        fd == negone_err(o)
    IN  [res   |-> IF fd.kind = "ok" THEN Ok([fd |-> fd.val.ret]) ELSE fd,
         calls |-> <<Call("openat", [dirfd |-> dirfd, path |-> path,
                                     oflags |-> oflags, mode |-> mode], o)>>,
         links |-> links]

openat(dirfd, path, oflags, mode, w) ==
    LET c == as_cstr(path)
        r == IF ~c.ok THEN Failed ELSE _openat(dirfd, c.val, oflags, mode, w)
    IN  /\ pc = "idle"
        /\ Return("openat", [dirfd |-> dirfd, path |-> path,
                              oflags |-> oflags, mode |-> mode], r)
        /\ handles' = IF r.res.kind = "ok"
                      THEN handles \cup {[fd |-> r.res.val.fd, manual |-> FALSE]}
                      ELSE handles
        /\ UNCHANGED <<platform, symlinked, buffer>>

-----------------------------------------------------------------------------
(* mkdirat, linkat, unlinkat, renameat, symlinkat *)

\* _mkdirat calling again after a failed call.
_mkdirat_retrying(dirfd, path, mode, w) ==
    LET o == Plain(w)
        c == Call("mkdirat", [dirfd |-> dirfd, path |-> path, mode |-> mode], o)
    IN  [res   |-> zero_ok(o),
         calls |-> IF o.ret = 0 THEN <<c>> ELSE <<c, c>>,
         links |-> links]

_mkdirat(dirfd, path, mode, w) ==
    LET o == Plain(w)
    IN  [res   |-> zero_ok(o),
         calls |-> <<Call("mkdirat", [dirfd |-> dirfd, path |-> path, mode |-> mode], o)>>,
         links |-> links]

mkdirat(dirfd, path, mode, w) ==
    LET c == as_cstr(path)
    IN  /\ pc = "idle"
        /\ Return("mkdirat", [dirfd |-> dirfd, path |-> path, mode |-> mode],
                  IF ~c.ok THEN Failed ELSE _mkdirat(dirfd, c.val, mode, w))
        /\ UNCHANGED <<platform, symlinked, handles, buffer>>

_linkat(old_dirfd, old_path, new_dirfd, new_path, flags, w) ==
    LET o == Plain(w)
    IN  [res   |-> zero_ok(o),
         calls |-> <<Call("linkat",
                          [old_dirfd |-> old_dirfd, old_path |-> old_path,
                           new_dirfd |-> new_dirfd, new_path |-> new_path, flags |-> flags], o)>>,
         links |-> links]

\* linkat terminating its second path without looking for a NUL inside it.
linkat_second_unchecked(old_dirfd, old_path, new_dirfd, new_path, flags, w) ==
    LET c1 == as_cstr(old_path)
    IN  /\ pc = "idle"
        /\ Return("linkat",
                  [old_dirfd |-> old_dirfd, old_path |-> old_path,
                   new_dirfd |-> new_dirfd, new_path |-> new_path, flags |-> flags],
                  IF ~c1.ok THEN Failed
                  ELSE _linkat(old_dirfd, c1.val, new_dirfd, Append(new_path, 0),
                               flags, w))
        /\ UNCHANGED <<platform, symlinked, handles, buffer>>

linkat(old_dirfd, old_path, new_dirfd, new_path, flags, w) ==
    LET c1 == as_cstr(old_path)
        c2 == as_cstr(new_path)
    IN  /\ pc = "idle"
        /\ Return("linkat",
                  [old_dirfd |-> old_dirfd, old_path |-> old_path,
                   new_dirfd |-> new_dirfd, new_path |-> new_path, flags |-> flags],
                  IF ~c1.ok THEN Failed
                  ELSE IF ~c2.ok THEN Failed
                  ELSE _linkat(old_dirfd, c1.val, new_dirfd, c2.val, flags, w))
        /\ UNCHANGED <<platform, symlinked, handles, buffer>>

_unlinkat(dirfd, path, flags, w) ==
    LET o == libc_unlinkat(w, links, path)
    IN  [res   |-> zero_ok(o),
         calls |-> <<Call("unlinkat", [dirfd |-> dirfd, path |-> path, flags |-> flags], o)>>,
         links |-> o.links]

unlinkat(dirfd, path, flags, w) ==
    LET c == as_cstr(path)
        r == IF ~c.ok THEN Failed ELSE _unlinkat(dirfd, c.val, flags, w)
    IN  /\ pc = "idle"
        /\ Return("unlinkat", [dirfd |-> dirfd, path |-> path, flags |-> flags], r)
        /\ symlinked' = IF r.res.kind = "ok"
                        THEN [x \in DOMAIN symlinked \ {path} |-> symlinked[x]]
                        ELSE symlinked
        /\ UNCHANGED <<platform, handles, buffer>>

_renameat(old_dirfd, old_path, new_dirfd, new_path, w) ==
    LET o == Plain(w)
    IN  [res   |-> zero_ok(o),
         calls |-> <<Call("renameat",
                          [old_dirfd |-> old_dirfd, old_path |-> old_path,
                           new_dirfd |-> new_dirfd, new_path |-> new_path], o)>>,
         links |-> links]

renameat(old_dirfd, old_path, new_dirfd, new_path, w) ==
    LET c1 == as_cstr(old_path)
        c2 == as_cstr(new_path)
    IN  /\ pc = "idle"
        /\ Return("renameat",
                  [old_dirfd |-> old_dirfd, old_path |-> old_path,
                   new_dirfd |-> new_dirfd, new_path |-> new_path],
                  IF ~c1.ok THEN Failed
                  ELSE IF ~c2.ok THEN Failed
                  ELSE _renameat(old_dirfd, c1.val, new_dirfd, c2.val, w))
        /\ UNCHANGED <<platform, symlinked, handles, buffer>>

_symlinkat(old_path, new_dirfd, new_path, w) ==
    LET o == libc_symlinkat(w, links, platform, old_path, new_path)
    IN  [res   |-> zero_ok(o),
         calls |-> <<Call("symlinkat",
                          [old_path |-> old_path, new_dirfd |-> new_dirfd,
                           new_path |-> new_path], o)>>,
         links |-> o.links]

symlinkat(old_path, new_dirfd, new_path, w) ==
    LET c1 == as_cstr(old_path)
        c2 == as_cstr(new_path)
        r  == IF ~c1.ok THEN Failed
              ELSE IF ~c2.ok THEN Failed
              ELSE _symlinkat(c1.val, new_dirfd, c2.val, w)
    IN  /\ pc = "idle"
        /\ Return("symlinkat",
                  [old_path |-> old_path, new_dirfd |-> new_dirfd,
                   new_path |-> new_path], r)
        /\ symlinked' = IF r.res.kind = "ok"
                        THEN [x \in DOMAIN symlinked \cup {new_path} |->
                                 IF x = new_path THEN old_path ELSE symlinked[x]]
                        ELSE symlinked
        /\ UNCHANGED <<platform, handles, buffer>>

-----------------------------------------------------------------------------
(* statat, accessat, utimensat, chmodat, fclonefileat *)

\* MaybeUninit::<LibcStat>::uninit()
Uninit == [init |-> FALSE, st_size |-> 0]

\* _statat without the `?`: assume_init whatever fstatat returned.
_statat_unchecked(dirfd, path, flags, w) ==
    LET o == libc_fstatat(w, Uninit)
    IN  [res   |-> Ok([stat |-> o.stat]),
         calls |-> <<Call("fstatat", [dirfd |-> dirfd, path |-> path, flags |-> flags], o)>>,
         links |-> links]

_statat(dirfd, path, flags, w) ==
    LET o == libc_fstatat(w, Uninit)
        r == zero_ok(o)
    IN  [res   |-> IF r.kind = "ok" THEN Ok([stat |-> o.stat]) ELSE r,
         calls |-> <<Call("fstatat", [dirfd |-> dirfd, path |-> path, flags |-> flags], o)>>,
         links |-> links]

statat(dirfd, path, flags, w) ==
    LET c == as_cstr(path)
    IN  /\ pc = "idle"
        /\ Return("statat", [dirfd |-> dirfd, path |-> path, flags |-> flags],
                  IF ~c.ok THEN Failed ELSE _statat(dirfd, c.val, flags, w))
        /\ UNCHANGED <<platform, symlinked, handles, buffer>>

\* _accessat probing with the flags dropped.
_accessat_noflags(dirfd, path, access, flags, w) ==
    IF platform = "emscripten"
    THEN [res |-> Ok(Unit), calls |-> <<>>, links |-> links]
    ELSE LET o == Plain(w)
         IN  [res   |-> zero_ok(o),
              calls |-> <<Call("faccessat", [dirfd |-> dirfd, path |-> path,
                                             access |-> access, flags |-> 0], o)>>,
              links |-> links]

_accessat(dirfd, path, access, flags, w) ==
    IF platform = "emscripten"
    THEN [res |-> Ok(Unit), calls |-> <<>>, links |-> links]
    ELSE LET o == Plain(w)
         IN  [res   |-> zero_ok(o),
              calls |-> <<Call("faccessat", [dirfd |-> dirfd, path |-> path,
                                             access |-> access, flags |-> flags], o)>>,
              links |-> links]

accessat(dirfd, path, access, flags, w) ==
    LET c == as_cstr(path)
    IN  /\ pc = "idle"
        /\ Return("accessat",
                  [dirfd |-> dirfd, path |-> path, access |-> access, flags |-> flags],
                  IF ~c.ok THEN Failed ELSE _accessat(dirfd, c.val, access, flags, w))
        /\ UNCHANGED <<platform, symlinked, handles, buffer>>

_utimensat(dirfd, path, times, flags, w) ==
    LET o == Plain(w)
    IN  [res   |-> zero_ok(o),
         calls |-> <<Call("utimensat", [dirfd |-> dirfd, path |-> path,
                                        times |-> times, flags |-> flags], o)>>,
         links |-> links]

utimensat(dirfd, path, times, flags, w) ==
    LET c == as_cstr(path)
    IN  /\ pc = "idle"
        /\ Return("utimensat",
                  [dirfd |-> dirfd, path |-> path, times |-> times, flags |-> flags],
                  IF ~c.ok THEN Failed ELSE _utimensat(dirfd, c.val, times, flags, w))
        /\ UNCHANGED <<platform, symlinked, handles, buffer>>

\* _chmodat asking fchmodat not to follow the terminal symlink.
_chmodat_nofollow(dirfd, path, mode, w) ==
    LET o == Plain(w)
    IN  [res   |-> zero_ok(o),
         calls |-> IF platform = "linux"
                   THEN <<Call("syscall", [number |-> "SYS_fchmodat", dirfd |-> dirfd,
                                           path |-> path, mode |-> mode], o)>>
                   ELSE <<Call("fchmodat", [dirfd |-> dirfd, path |-> path,
                                            mode |-> mode,
                                            flags |-> AT_SYMLINK_NOFOLLOW], o)>>,
         links |-> links]

_chmodat(dirfd, path, mode, w) ==
    LET o == Plain(w)
    IN  [res   |-> zero_ok(o),
         calls |-> IF platform = "linux"
                   THEN <<Call("syscall", [number |-> "SYS_fchmodat", dirfd |-> dirfd,
                                           path |-> path, mode |-> mode], o)>>
                   ELSE <<Call("fchmodat", [dirfd |-> dirfd, path |-> path,
                                            mode |-> mode, flags |-> 0], o)>>,
         links |-> links]

chmodat(dirfd, path, mode, w) ==
    LET c == as_cstr(path)
    IN  /\ pc = "idle"
        /\ platform # "wasi"
        /\ Return("chmodat", [dirfd |-> dirfd, path |-> path, mode |-> mode],
                  IF ~c.ok THEN Failed ELSE _chmodat(dirfd, c.val, mode, w))
        /\ UNCHANGED <<platform, symlinked, handles, buffer>>

_fclonefileat(srcfd, dst_dirfd, dst, flags, w) ==
    LET o == Plain(w)
    IN  [res   |-> zero_ok(o),
         calls |-> <<Call("fclonefileat", [srcfd |-> srcfd, dst_dirfd |-> dst_dirfd,
                                           dst |-> dst, flags |-> flags], o)>>,
         links |-> links]

fclonefileat(src, dst_dir, dst, flags, w) ==
    LET c == as_cstr(dst)
    IN  /\ pc = "idle"
        /\ platform = "macos"
        /\ Return("fclonefileat",
                  [src |-> src, dst_dir |-> dst_dir, dst |-> dst, flags |-> flags],
                  IF ~c.ok THEN Failed ELSE _fclonefileat(src, dst_dir, c.val, flags, w))
        /\ UNCHANGED <<platform, symlinked, handles, buffer>>

-----------------------------------------------------------------------------
(* readlinkat *)

\* The outcome of undefined behaviour (a write or a length past the buffer).
UB == [kind |-> "ub", val |-> Unit, errno |-> 0]

\* The Vec<u8>'s spare capacity is uninitialized memory.
Uninitialized(n) == [i \in 1..n |-> -1]

\* buffer.len() of the fixed buffer, as passed to libc::readlinkat
fixed_bufsiz(buf) == Len(buf)

\* _readlinkat slicing one byte too many: &buffer[0..=nread].
_readlinkat_inclusive(dirfd, path, w) ==
    LET buf   == [i \in 1..(PATH_MAX + 1) |-> 0]
        size  == fixed_bufsiz(buf)
        o     == libc_readlinkat(w, links, path, buf, size)
        nread == negone_err(o)
    IN  [res   |-> IF nread.kind # "ok" THEN nread
                   ELSE IF nread.val.ret < 0 \/ nread.val.ret + 1 > Len(buf) THEN Panic
                   ELSE Ok([bytes |-> SubSeq(o.buf, 1, nread.val.ret + 1)]),
         calls |-> <<Call("readlinkat",
                          [dirfd |-> dirfd, path |-> path, bufsiz |-> size], o)>>,
         links |-> links]

\* The fixed-buffer variant: one call into a PATH_MAX + 1 byte array.
_readlinkat(dirfd, path, w) ==
    LET buf   == [i \in 1..(PATH_MAX + 1) |-> 0]
        size  == fixed_bufsiz(buf)
        o     == libc_readlinkat(w, links, path, buf, size)
        nread == negone_err(o)
    IN  [res   |-> IF nread.kind # "ok" THEN nread
                   ELSE IF nread.val.ret < 0 \/ nread.val.ret > Len(buf) THEN Panic
                   ELSE Ok([bytes |-> SubSeq(o.buf, 1, nread.val.ret)]),
         calls |-> <<Call("readlinkat",
                          [dirfd |-> dirfd, path |-> path, bufsiz |-> size], o)>>,
         links |-> links]

\* readlinkat: the fixed variant runs to its end; the wasi variant enters its loop.
readlinkat(dirfd, path, w) ==
    LET c == as_cstr(path)
    IN  /\ pc = "idle"
        /\ IF ~c.ok
           THEN Return("readlinkat", [dirfd |-> dirfd, path |-> path], Failed) /\ buffer' = buffer
           ELSE IF platform # "wasi"
           THEN Return("readlinkat", [dirfd |-> dirfd, path |-> path],
                       _readlinkat(dirfd, c.val, w))
                /\ buffer' = buffer
           ELSE /\ op' = [name |-> "readlinkat", args |-> [dirfd |-> dirfd, path |-> path]]
                /\ result' = None
                /\ calls' = <<>>
                /\ pc' = "loop"
                /\ buffer' = [len |-> 0, cap |-> InitialCapacity,
                              data |-> Uninitialized(InitialCapacity)]
                /\ links' = links
        /\ UNCHANGED <<platform, symlinked, handles>>

\* One byte more than the buffer holds.
wasi_bufsiz_over(b) == b.cap + 1

\* buffer.capacity(), as passed to libc::readlinkat
wasi_bufsiz(b) == b.cap

\* A reserve that does not grow the buffer.
reserve_nothing(b) == {b.cap}

\* buffer.reserve(1): the capacities the allocator may give (at least len + 1,
\* amortized growth doubles).
reserve(b) == {c \in {b.len + 1, 2 * b.cap} : c > b.len}

\* One iteration of the wasi loop.
_readlinkat_wasi(w) ==
    LET dirfd == op.args.dirfd
        path  == as_cstr(op.args.path).val
        size  == wasi_bufsiz(buffer)
        o     == libc_readlinkat(w, links, path, buffer.data, size)
        nread == negone_err(o)
        call  == Call("readlinkat",
                      [dirfd |-> dirfd, path |-> path, bufsiz |-> size], o)
        n     == nread.val.ret
        done(r) == /\ result' = r
                   /\ pc' = "idle"
                   /\ buffer' = NoBuffer
    IN  /\ pc = "loop"
        /\ calls' = Append(calls, call)
        /\ IF nread.kind # "ok" THEN done(nread)
           ELSE IF n < 0 THEN done(Panic)
           ELSE IF n > buffer.cap THEN done(UB)
           ELSE IF n < buffer.cap THEN done(Ok([bytes |-> SubSeq(o.buf, 1, n)]))
           ELSE \E c \in reserve([buffer EXCEPT !.len = n]) :
                  /\ buffer' = [len  |-> n,
                                cap  |-> c,
                                data |-> [i \in 1..c |-> IF i <= n
                                                         THEN o.buf[i] ELSE -1]]
                  /\ UNCHANGED <<result, pc>>
        /\ UNCHANGED <<platform, links, symlinked, handles, op>>

-----------------------------------------------------------------------------
Next ==
    \/ cwd
    \/ \E h \in handles : drop(h)
    \/ \E d \in DirFds, p \in Paths, f \in OFlagsSet, m \in Modes, w \in Answers :
          openat(d, p, f, m, w)
    \/ \E d \in DirFds, p \in Paths, w \in Answers : readlinkat(d, p, w)
    \/ \E w \in Answers : _readlinkat_wasi(w)
    \/ \E d \in DirFds, p \in Paths, m \in Modes, w \in Answers : mkdirat(d, p, m, w)
    \/ \E d \in DirFds, e \in DirFds, p \in Paths, q \in Paths, w \in Answers :
          linkat(d, p, e, q, 0, w)
    \/ \E d \in DirFds, p \in Paths, w \in Answers : unlinkat(d, p, 0, w)
    \/ \E d \in DirFds, e \in DirFds, p \in Paths, q \in Paths, w \in Answers :
          renameat(d, p, e, q, w)
    \/ \E t \in Targets(platform), d \in DirFds, q \in Paths, w \in Answers :
          symlinkat(t, d, q, w)
    \/ \E d \in DirFds, p \in Paths, f \in AtFlagsSet, w \in Answers :
          statat(d, p, f, w)
    \/ \E d \in DirFds, p \in Paths, a \in AccessSet, f \in AtFlagsSet, w \in Answers :
          accessat(d, p, a, f, w)
    \/ \E d \in DirFds, p \in Paths, w \in Answers :
          utimensat(d, p, <<5, 6>>, 0, w)
    \/ \E d \in DirFds, p \in Paths, m \in Modes, w \in Answers : chmodat(d, p, m, w)
    \/ \E s \in OpenFds(handles), d \in DirFds, p \in Paths, w \in Answers :
          fclonefileat(s, d, p, 0, w)

Spec == Init /\ [][Next]_vars

\* The wasi loop is straight-line code: once entered it keeps running.
FairSpec == Spec /\ WF_vars(\E w \in Answers : _readlinkat_wasi(w))

-----------------------------------------------------------------------------
(* Vocabulary of the properties *)

Wrappers ==
    {"openat", "readlinkat", "mkdirat", "linkat", "unlinkat", "renameat",
     "symlinkat", "statat", "accessat", "utimensat", "chmodat", "fclonefileat"}

\* The path arguments the caller gave to the invocation in op.
PathArgs ==
    IF op.name \in {"linkat", "renameat"} THEN {op.args.old_path, op.args.new_path}
    ELSE IF op.name = "symlinkat" THEN {op.args.old_path, op.args.new_path}
    ELSE IF op.name = "fclonefileat" THEN {op.args.dst}
    ELSE IF op.name \in Wrappers THEN {op.args.path}
    ELSE {}

HasNul(p) == \E i \in 1..Len(p) : p[i] = 0

\* A wrapper invocation has returned to the caller.
Returned == op.name \in Wrappers /\ pc = "idle"

\* The native entry point a wrapper is a binding of.
NativeOf(name) ==
    IF name = "statat" THEN "fstatat"
    ELSE IF name = "accessat" THEN "faccessat"
    ELSE IF name = "chmodat" THEN (IF platform = "linux" THEN "syscall" ELSE "fchmodat")
    ELSE name

\* Whether a native call reported success.
Succeeded(c) == IF c.fn \in {"openat", "readlinkat"} THEN c.ret >= 0 ELSE c.ret = 0

\* The last native call of the invocation.
LastCall == calls[Len(calls)]

-----------------------------------------------------------------------------
\* C1: a wrapper given a path argument with an embedded NUL byte (either path
\* of a two-path wrapper) returns the conversion error and has made no native
\* call in that invocation.
C1_ConversionErrorBeforeNativeCall ==
    (op.name \in Wrappers /\ \E p \in PathArgs : HasNul(p))
        => /\ pc = "idle"
           /\ result = ConvErr
           /\ calls = <<>>

\* C1 witness: linkat whose first path converts and whose second does not.
C1_Witness ==
    /\ op.name = "linkat"
    /\ ~HasNul(op.args.old_path)
    /\ HasNul(op.args.new_path)
    /\ result.kind = "conv_err"

\* C2: statat returns a record exactly when fstatat returned zero, the record
\* it returns was filled in by that call, and a failed fstatat yields an error.
C2_StatOnlyAfterSuccess ==
    (op.name = "statat" /\ result.kind # "conv_err")
        => /\ Len(calls) = 1
           /\ calls[1].fn = "fstatat"
           /\ (result.kind = "ok") <=> (calls[1].ret = 0)
           /\ (result.kind = "ok") => result.val.stat.init
           /\ (calls[1].ret # 0) => result = OsErr(calls[1].errno)

\* C2 witness: fstatat failed and statat returned the error.
C2_Witness ==
    /\ op.name = "statat"
    /\ result.kind = "os_err"
    /\ calls[1].ret = -1

\* C3: readlinkat of a name created by a successful symlinkat(t, dir, name),
\* with no mutation in between, returns exactly the bytes of t (no terminator,
\* nothing cut off) under both buffer strategies, unless the OS fails the read.
C3_SymlinkRoundTrip ==
    (Returned /\ op.name = "readlinkat" /\ op.args.path \in DOMAIN symlinked)
        => /\ calls # <<>>
           /\ \/ result = Ok([bytes |-> symlinked[op.args.path]])
              \/ result.kind = "os_err" /\ LastCall.ret = -1

\* C3 witness: the growing strategy returned a target longer than its first buffer.
C3_Witness ==
    /\ platform = "wasi"
    /\ Returned
    /\ op.name = "readlinkat"
    /\ op.args.path \in DOMAIN symlinked
    /\ result.kind = "ok"
    /\ Len(result.val.bytes) > InitialCapacity

\* C4 as claimed: every invocation whose path conversion succeeds has made
\* exactly one native call when it returns.
C4_ExactlyOneNativeCall ==
    (Returned /\ result.kind # "conv_err") => Len(calls) = 1

\* C4 as amended: an invocation whose paths convert calls one native entry
\* point only, and calls it exactly once, except that accessat on emscripten
\* calls nothing and the growing-buffer readlinkat calls readlinkat again, and
\* only after a call that filled the buffer it was given; a failed call is
\* never repeated.
C4_OneEntryPointNoRetryAfterFailure ==
    (op.name \in Wrappers /\ result.kind # "conv_err")
        => /\ \A i \in 1..Len(calls) : calls[i].fn = NativeOf(op.name)
           /\ \A i \in 1..(Len(calls) - 1) :
                  /\ Succeeded(calls[i])
                  /\ calls[i].ret = calls[i].args.bufsiz
           /\ IF op.name = "accessat" /\ platform = "emscripten"
              THEN calls = <<>>
              ELSE IF op.name = "readlinkat" /\ platform = "wasi"
              THEN pc = "idle" => Len(calls) >= 1
              ELSE Len(calls) = 1

\* C4 witness: a growing-buffer readlinkat that returned after two native calls.
C4_Witness ==
    /\ Returned
    /\ op.name = "readlinkat"
    /\ Len(calls) = 2
    /\ result.kind = "ok"

\* C5: cwd() returns the AT_FDCWD sentinel without calling anything, the handle
\* it hands out is never an owning one, and no operation (a wrapper borrowing
\* the handle, or the handle being dropped) ever issues close on the sentinel.
C5_SentinelNeverClosed ==
    /\ \A i \in 1..Len(calls) :
           calls[i].fn = "close" => calls[i].args.fd # AT_FDCWD
    /\ op.name = "drop" => (calls = <<>>) <=> (op.args.fd = AT_FDCWD)
    /\ \A h \in handles : h.fd = AT_FDCWD => h.manual
    /\ op.name = "cwd" => (result = Ok([fd |-> AT_FDCWD]) /\ calls = <<>>)

\* C5 witness: the cwd handle, borrowed or not before, has been dropped.
C5_Witness ==
    /\ op.name = "drop"
    /\ op.args.fd = AT_FDCWD
    /\ calls = <<>>

\* C6: a wrapper that made native calls returns success exactly when its last
\* native call reported success, and otherwise the OS error with that call's
\* errno; openat's File wraps exactly the returned descriptor and no File
\* wraps a failure value.
C6_ResultFollowsNativeCall ==
    /\ (Returned /\ calls # <<>>)
          => /\ (result.kind = "ok") <=> Succeeded(LastCall)
             /\ ~Succeeded(LastCall) => result = OsErr(LastCall.errno)
             /\ (op.name = "openat" /\ result.kind = "ok")
                   => /\ result.val.fd = LastCall.ret
                      /\ [fd |-> LastCall.ret, manual |-> FALSE] \in handles
    /\ \A h \in handles : ~h.manual => h.fd >= 0

\* C6 witness: openat succeeded and the caller holds the new descriptor.
C6_Witness ==
    /\ op.name = "openat"
    /\ result.kind = "ok"
    /\ [fd |-> result.val.fd, manual |-> FALSE] \in handles

\* C7: chmodat's one native call is fchmodat with flags 0, or on linux the raw
\* fchmodat syscall, which has no flags argument; on every variant it carries
\* the caller's dirfd, converted path and mode, so no variant ever asks not to
\* follow the terminal symlink.
C7_ChmodFollowsSymlinks ==
    (op.name = "chmodat" /\ result.kind # "conv_err")
        => /\ Len(calls) = 1
           /\ calls[1].args.dirfd = op.args.dirfd
           /\ calls[1].args.path = Append(op.args.path, 0)
           /\ calls[1].args.mode = op.args.mode
           /\ IF platform = "linux"
              THEN /\ calls[1].fn = "syscall"
                   /\ DOMAIN calls[1].args = {"number", "dirfd", "path", "mode"}
                   /\ calls[1].args.number = "SYS_fchmodat"
              ELSE /\ calls[1].fn = "fchmodat"
                   /\ DOMAIN calls[1].args = {"dirfd", "path", "mode", "flags"}
                   /\ calls[1].args.flags = 0

\* C7 witness: chmodat on a platform whose fchmodat takes flags.
C7_Witness ==
    /\ op.name = "chmodat"
    /\ platform = "macos"
    /\ result.kind = "ok"

\* C8: accessat probes with faccessat, passing the caller's access mode and
\* flags, and succeeds exactly when the probe returns zero; on emscripten it
\* calls nothing and succeeds whenever the path converts.
C8_AccessProbe ==
    (op.name = "accessat" /\ result.kind # "conv_err")
        => IF platform = "emscripten"
           THEN calls = <<>> /\ result = Ok(Unit)
           ELSE /\ Len(calls) = 1
                /\ calls[1].fn = "faccessat"
                /\ calls[1].args = [dirfd  |-> op.args.dirfd,
                                    path   |-> Append(op.args.path, 0),
                                    access |-> op.args.access,
                                    flags  |-> op.args.flags]
                /\ (result.kind = "ok") <=> (calls[1].ret = 0)

\* C8 witness: a probe with a flag set was refused by the OS.
C8_Witness ==
    /\ op.name = "accessat"
    /\ platform # "emscripten"
    /\ op.args.flags = AT_SYMLINK_NOFOLLOW
    /\ result.kind = "os_err"

\* C9: the growing-buffer loop ends; it goes round again exactly when the
\* call filled the whole buffer, each time with a strictly larger capacity,
\* and it returns only after a call that returned less than the capacity or
\* an error.
C9_GrowingLoopTerminates ==
    /\ [][ (pc = "loop" /\ pc' = "loop")
              => /\ buffer'.cap > buffer.cap
                 /\ calls'[Len(calls')].ret = buffer.cap ]_vars
    /\ [][ (pc = "loop" /\ pc' = "idle")
              => \/ /\ calls'[Len(calls')].ret >= 0
                    /\ calls'[Len(calls')].ret < buffer.cap
                    /\ result'.kind = "ok"
                 \/ /\ calls'[Len(calls')].ret < 0
                    /\ result'.kind = "os_err" ]_vars
    /\ (pc = "loop") ~> (pc = "idle")

\* C9 witness: the loop is running with a buffer it has already grown.
C9_Witness ==
    /\ pc = "loop"
    /\ buffer.cap > InitialCapacity
    /\ Len(calls) >= 1

\* C10: every readlinkat return value that passes negone_err is between 0 and
\* the buffer size given to that call, so no conversion panics, no slice
\* leaves the fixed buffer and the Vec's length never exceeds its capacity.
C10_ReadLengthWithinBuffer ==
    /\ buffer.len <= buffer.cap
    /\ result.kind \notin {"panic", "ub"}
    /\ op.name = "readlinkat"
          => \A i \in 1..Len(calls) :
                 negone_err(calls[i]).kind = "ok"
                    => /\ calls[i].ret >= 0
                       /\ calls[i].ret <= calls[i].args.bufsiz
                       /\ platform # "wasi" => calls[i].args.bufsiz = PATH_MAX + 1
    /\ (Returned /\ op.name = "readlinkat" /\ result.kind = "ok")
          => Len(result.val.bytes) = LastCall.ret

\* C10 witness: a call filled the growing buffer exactly.
C10_Witness ==
    /\ pc = "loop"
    /\ buffer.len = InitialCapacity
    /\ LastCall.ret = InitialCapacity

====
